---- MODULE Spec2Model ----
(***************************************************************************)
(* State-machine model of the os-simulator MLFQ scheduler                  *)
(* (src/src/scheduler/mod.rs), process manager (src/src/process/mod.rs),   *)
(* scheduler metrics (src/src/scheduler/metrics.rs) and shell              *)
(* (src/src/shell/mod.rs).                                                 *)
(* Each object is one record whose fields carry the names of the struct's  *)
(* fields; every method is an operator from an object value to the object  *)
(* value it leaves behind, and every action applies one method call to the *)
(* state.                                                                  *)
(***************************************************************************)
EXTENDS Integers, Sequences, FiniteSets, TLC

VARIABLES
    sched,      \* the MLFQScheduler object
    op,         \* the method called last, where calls are logged
    ret,        \* what that call returned: Some(<<pid, quantum>>) or None
    obs,        \* observer of LongSpec: per identifier, time since admission
    bypassed,   \* observer of FairSpec: identifiers a dispatch has passed over
    pm,         \* the ProcessManager object
    now,        \* what Utc::now() returns
    stats,      \* the SchedulerStats object
    arg,        \* the arguments of the call logged in op
    hist        \* observer of StatsSpec and ShellSpec: what has been recorded so far

vars == <<sched, op, ret, obs, bypassed, pm, now, stats, arg, hist>>

----------------------------------------------------------------------------
(* Bounds of the model *)

\* no call is taken that would leave more than MaxQueued queue entries
MaxQueued == 3

\* current_ticks is a u32 (mod.rs:32); the model keeps TickBits bits of it so
\* that the wrap of wrapping_add is within reach
TickBits == 7

\* Spec follows the tick counter for MaxPhase calls past 0 and past a boost,
\* and starts it at 0, Lead calls before the first boost, or one call before
\* the counter wraps
MaxPhase == 1
Lead == 1

\* LongSpec follows the tick counter for Slack calls past the first boost
Slack == 1

Pids == {1, 2}               \* identifiers admitted to the scheduler
CallPids == Pids \cup {3}     \* identifiers passed to its other calls: 3 is never admitted
LongPids == {1}
QueueInputs == 0..4          \* 4 is the out-of-range queue index
TickInputs == {24, 64}       \* arguments of tick()
TickModulus == 2 ^ TickBits

----------------------------------------------------------------------------
(* Option values and small sequence helpers *)

None == <<>>
Some(x) == <<x>>

Range(q) == {q[i] : i \in 1..Len(q)}

\* VecDeque::retain(|&p| p != pid)
retain(q, pid) == SelectSeq(q, LAMBDA p : p # pid)

\* VecDeque::push_back
push_back(q, pid) == Append(q, pid)

\* HashMap::insert
insert(m, pid, n) == [p \in DOMAIN m \cup {pid} |-> IF p = pid THEN n ELSE m[p]]

\* HashMap::remove (the map that is left)
remove_key(m, pid) == [p \in DOMAIN m \ {pid} |-> m[p]]

----------------------------------------------------------------------------
(* MLFQScheduler *)

\* one quantum for every queue
time_quantums_uniform == [i \in 0..3 |-> 8]

time_quantums == [i \in 0..3 |-> CASE i = 0 -> 8 [] i = 1 -> 16 [] i = 2 -> 32 [] OTHER -> 64]

boost_interval == 100

MLFQScheduler_new ==
    [ queues            |-> [i \in 0..3 |-> <<>>],
      process_queue_map |-> [p \in {} |-> 0],
      current_ticks     |-> 0,
      current_pid       |-> None,
      time_remaining    |-> 0 ]

add_process(s, pid) ==
    [s EXCEPT !.queues[3] = push_back(@, pid),
              !.process_queue_map = insert(@, pid, 3)]

\* an out-of-range index taken as the last queue
add_process_to_queue_clamped(s, pid, queue) ==
    LET n == IF queue < 4 THEN queue ELSE 3
    IN  [s EXCEPT !.queues[n] = push_back(@, pid),
                  !.process_queue_map = insert(@, pid, n)]

add_process_to_queue(s, pid, queue) ==
    IF queue < 4
    THEN [s EXCEPT !.queues[queue] = push_back(@, pid),
                   !.process_queue_map = insert(@, pid, queue)]
    ELSE s

\* a removal that forgets the identifier and leaves its queue entries
remove_process_lazy(s, pid) ==
    [s EXCEPT !.process_queue_map = remove_key(@, pid)]

remove_process(s, pid) ==
    IF pid \in DOMAIN s.process_queue_map
    THEN LET queue_idx == s.process_queue_map[pid]
         IN  [s EXCEPT !.process_queue_map = remove_key(@, pid),
                       !.queues[queue_idx] = retain(@, pid)]
    ELSE s

move_process_to_queue(s, pid, new_queue) ==
    IF new_queue < 4
    THEN LET removed ==
                 IF pid \in DOMAIN s.process_queue_map
                 THEN [s EXCEPT !.queues[s.process_queue_map[pid]] = retain(@, pid),
                                !.process_queue_map = remove_key(@, pid)]
                 ELSE s
         IN  [removed EXCEPT !.queues[new_queue] = push_back(@, pid),
                             !.process_queue_map = insert(@, pid, new_queue)]
    ELSE s

\* a boost that moves nothing
priority_boost_skipped(s) == s

\* a boost that drains queue 3 first, then queue 2, then queue 1
priority_boost_descending(s) ==
    LET moved == s.queues[3] \o s.queues[2] \o s.queues[1]
    IN  [s EXCEPT !.queues = [i \in 0..3 |-> IF i = 0 THEN s.queues[0] \o moved ELSE <<>>],
                  !.process_queue_map =
                      [p \in DOMAIN @ \cup Range(moved) |->
                          IF p \in Range(moved) THEN 0 ELSE @[p]]]

\* for queue_idx in 1..4: pop every identifier from the front, push it on the
\* back of queue 0 and set its reverse-index entry to 0
priority_boost(s) ==
    LET moved == s.queues[1] \o s.queues[2] \o s.queues[3]
    IN  [s EXCEPT !.queues = [i \in 0..3 |-> IF i = 0 THEN s.queues[0] \o moved ELSE <<>>],
                  !.process_queue_map =
                      [p \in DOMAIN @ \cup Range(moved) |->
                          IF p \in Range(moved) THEN 0 ELSE @[p]]]

\* the scan run from queue 3 down to queue 0
first_non_empty_reversed(queues) ==
    IF \E i \in 0..3 : queues[i] # <<>>
    THEN CHOOSE i \in 0..3 : queues[i] # <<>> /\ \A j \in (i + 1)..3 : queues[j] = <<>>
    ELSE 4

\* the first queue, scanning 0..4, that pop_front finds non-empty (4: none)
first_non_empty(queues) ==
    IF \E i \in 0..3 : queues[i] # <<>>
    THEN CHOOSE i \in 0..3 : queues[i] # <<>> /\ \A j \in 0..(i - 1) : queues[j] = <<>>
    ELSE 4

\* pop_back in place of pop_front
pop_back(q) == [pid |-> q[Len(q)], rest |-> SubSeq(q, 1, Len(q) - 1)]

\* VecDeque::pop_front on a non-empty queue: the identifier and what is left
pop_front(q) == [pid |-> Head(q), rest |-> Tail(q)]

\* a boost on every call
boost_due_always(ticks) == TRUE

\* current_ticks > 0 && current_ticks % boost_interval == 0
boost_due(ticks) == ticks > 0 /\ ticks % boost_interval = 0

\* a scan that found nothing and keeps the dispatched identifier
no_process_stale(s) == s

\* "No process available": the scan found every queue empty
no_process(s) == [s EXCEPT !.current_pid = None]

\* the scheduler left behind and the value returned
next_process(s) ==
    LET ticks   == (s.current_ticks + 1) % TickModulus
        ticked  == [s EXCEPT !.current_ticks = ticks]
        boosted == IF boost_due(ticks)
                   THEN priority_boost(ticked)
                   ELSE ticked
        queue_idx == first_non_empty(boosted.queues)
    IN  IF queue_idx < 4
        THEN LET popped  == pop_front(boosted.queues[queue_idx])
                 quantum == time_quantums[queue_idx]
             IN  [ s   |-> [boosted EXCEPT !.queues[queue_idx] = popped.rest,
                                           !.current_pid = Some(popped.pid),
                                           !.time_remaining = quantum],
                   ret |-> Some(<<popped.pid, quantum>>) ]
        ELSE [ s |-> no_process(boosted), ret |-> None ]

\* an identifier that is not tracked taken as one of queue 3
process_used_full_quantum_unguarded(s, pid) ==
    IF pid \in DOMAIN s.process_queue_map /\ s.process_queue_map[pid] < 3
    THEN move_process_to_queue(s, pid, s.process_queue_map[pid] + 1)
    ELSE [s EXCEPT !.queues[3] = push_back(@, pid)]

process_used_full_quantum(s, pid) ==
    IF pid \in DOMAIN s.process_queue_map
    THEN LET current_queue == s.process_queue_map[pid]
         IN  IF current_queue < 3
             THEN move_process_to_queue(s, pid, current_queue + 1)
             ELSE [s EXCEPT !.queues[3] = push_back(@, pid)]
    ELSE s

process_yielded_early(s, pid) ==
    IF pid \in DOMAIN s.process_queue_map
    THEN LET current_queue == s.process_queue_map[pid]
         IN  IF current_queue > 0
             THEN move_process_to_queue(s, pid, current_queue - 1)
             ELSE [s EXCEPT !.queues[0] = push_back(@, pid)]
    ELSE s

\* the subtraction without the floor at zero
unfloored_sub(a, b) == a - b

\* u32::saturating_sub
saturating_sub(a, b) == IF a >= b THEN a - b ELSE 0

tick(s, ticks) == [s EXCEPT !.time_remaining = saturating_sub(@, ticks)]

is_quantum_expired(s) == s.time_remaining = 0

current_process(s) == s.current_pid

time_remaining(s) == s.time_remaining

queue_lengths(s) == [i \in 0..3 |-> Len(s.queues[i])]

get_process_queue(s, pid) ==
    IF pid \in DOMAIN s.process_queue_map THEN Some(s.process_queue_map[pid]) ELSE None

\* a reset that leaves the tick counter
reset_keeps_ticks(s) ==
    [s EXCEPT !.queues = [i \in 0..3 |-> <<>>],
              !.process_queue_map = [p \in {} |-> 0],
              !.current_pid = None,
              !.time_remaining = 0]

reset(s) ==
    [s EXCEPT !.queues = [i \in 0..3 |-> <<>>],
              !.process_queue_map = [p \in {} |-> 0],
              !.current_pid = None,
              !.time_remaining = 0,
              !.current_ticks = 0]

----------------------------------------------------------------------------
(* Process and ProcessManager (src/src/process/mod.rs) *)

\* next_pid is a u32; the model keeps PidBits bits of it so that the overflow
\* of next_pid += 1 is within reach
PidBits == 2
PidModulus == 2 ^ PidBits

\* Utc::now() is followed up to MaxNow
MaxNow == 1

PpidInputs == {0, 1}         \* parent identifiers passed to create_process
ManagedPids == {1, 2}        \* identifiers passed to the manager's other calls
StateInputs == {"Ready", "Running", "Blocked", "Terminated"}

\* Process::new; the register and memory placeholders are left out
Process_new(pid, ppid, t) ==
    [ pid              |-> pid,
      ppid             |-> ppid,
      state            |-> "Ready",
      priority         |-> 3,
      time_allocated   |-> 0,
      time_used        |-> 0,
      total_time       |-> 0,
      creation_time    |-> t,
      termination_time |-> None,
      queue_entry_time |-> t ]

\* Process::set_state at time t
set_state(process, new_state, t) ==
    IF new_state = "Terminated"
    THEN [process EXCEPT !.state = new_state, !.termination_time = Some(t)]
    ELSE [process EXCEPT !.state = new_state]

ProcessManager_new ==
    [ processes          |-> [p \in {} |-> 0],
      next_pid           |-> 1,
      current_process_id |-> None ]

\* next_pid += 1 as a build without overflow checks computes it
wrapping_pid(n) == (n + 1) % PidModulus

\* the manager left behind and the pid returned
create_process(m, ppid, t) ==
    LET pid == m.next_pid
    IN  [ m   |-> [m EXCEPT !.next_pid = wrapping_pid(pid),
                            !.processes = insert(@, pid, Process_new(pid, ppid, t))],
          ret |-> pid ]

get_process(m, pid) ==
    IF pid \in DOMAIN m.processes THEN Some(m.processes[pid]) ELSE None

\* the manager left behind; the call returns whether pid is in the table
terminate_process(m, pid, t) ==
    IF pid \in DOMAIN m.processes
    THEN [m EXCEPT !.processes[pid] = set_state(@, "Terminated", t)]
    ELSE m

set_running_process(m, pid, t) ==
    LET marked == [m EXCEPT !.current_process_id = Some(pid)]
    IN  IF pid \in DOMAIN m.processes
        THEN [marked EXCEPT !.processes[pid] = set_state(@, "Running", t)]
        ELSE marked

get_running_process(m) ==
    IF m.current_process_id = None THEN None ELSE get_process(m, m.current_process_id[1])

clear_running_process(m) == [m EXCEPT !.current_process_id = None]

process_count(m) == Cardinality(DOMAIN m.processes)

\* Process::turnaround_time at time t; the clock does not run backwards, so
\* the cast of the difference to u64 changes nothing
turnaround_time(process, t) ==
    IF process.termination_time # None
    THEN process.termination_time[1] - process.creation_time
    ELSE t - process.creation_time

\* Process::response_time
response_time(process) ==
    IF process.total_time > 0
    THEN Some(process.queue_entry_time - process.creation_time)
    ELSE None

\* Process::waiting_time at time t
waiting_time(process, t) == saturating_sub(turnaround_time(process, t), process.total_time)

\* Option::unwrap_or
unwrap_or(o, d) == IF o = None THEN d ELSE o[1]

----------------------------------------------------------------------------
(* ProcessMetrics and SchedulerStats (src/src/scheduler/metrics.rs) *)

ProcessMetrics_new(pid) ==
    [ pid              |-> pid,
      turnaround_time  |-> 0,
      response_time    |-> 0,
      waiting_time     |-> 0,
      execution_time   |-> 0,
      context_switches |-> 0,
      queue_changes    |-> 0 ]

\* SchedulerStats::new; start_time (an Instant read by no method) is left out
SchedulerStats_new ==
    [ process_metrics        |-> [p \in {} |-> 0],
      total_context_switches |-> 0,
      total_ticks            |-> 0,
      processes_created      |-> 0,
      processes_terminated   |-> 0,
      total_execution_time   |-> 0,
      total_waiting_time     |-> 0,
      queue_depth_samples    |-> <<>> ]

Enrolled(st, pid) == pid \in DOMAIN st.process_metrics

record_process_created(st, pid) ==
    [st EXCEPT !.processes_created = @ + 1,
               !.process_metrics = insert(@, pid, ProcessMetrics_new(pid))]

record_context_switch(st, pid) ==
    LET counted == [st EXCEPT !.total_context_switches = @ + 1]
    IN  IF Enrolled(st, pid)
        THEN [counted EXCEPT !.process_metrics[pid].context_switches = @ + 1]
        ELSE counted

record_queue_change(st, pid) ==
    IF Enrolled(st, pid)
    THEN [st EXCEPT !.process_metrics[pid].queue_changes = @ + 1]
    ELSE st

record_execution_time(st, pid, time) ==
    LET counted == [st EXCEPT !.total_execution_time = @ + time]
    IN  IF Enrolled(st, pid)
        THEN [counted EXCEPT !.process_metrics[pid].execution_time = @ + time]
        ELSE counted

record_process_terminated(st, pid, turnaround, response) ==
    LET counted == [st EXCEPT !.processes_terminated = @ + 1]
    IN  IF Enrolled(st, pid)
        THEN LET waiting == saturating_sub(turnaround,
                                           st.process_metrics[pid].execution_time)
             IN  [counted EXCEPT !.process_metrics[pid].turnaround_time = turnaround,
                                 !.process_metrics[pid].response_time = response,
                                 !.process_metrics[pid].waiting_time = waiting,
                                 !.total_waiting_time = @ + waiting]
        ELSE counted

sample_queue_depths(st, depths) ==
    [st EXCEPT !.queue_depth_samples = Append(@, depths)]

record_tick(st) == [st EXCEPT !.total_ticks = @ + 1]

\* Iterator::sum of the values f takes on ids
RECURSIVE SumOver(_, _)
SumOver(f, ids) ==
    IF ids = {} THEN 0
    ELSE LET id == CHOOSE x \in ids : TRUE
         IN  f[id] + SumOver(f, ids \ {id})

\* a quotient of two u64 converted to f64, kept as the pair it is computed from
Quotient(total, count) == [num |-> total, den |-> count]
Zero == Quotient(0, 1)
SameQuotient(a, b) == a.num * b.den = b.num * a.den

\* .values().filter(|m| m.f > 0).map(|m| m.f).sum(), for f the values of one
\* field of the records
filtered_sum(f) == SumOver(f, {id \in DOMAIN f : f[id] > 0})

avg_turnaround_time(st) ==
    IF st.processes_terminated = 0 THEN Zero
    ELSE Quotient(filtered_sum([id \in DOMAIN st.process_metrics |->
                                    st.process_metrics[id].turnaround_time]),
                  st.processes_terminated)

avg_response_time(st) ==
    IF st.processes_terminated = 0 THEN Zero
    ELSE Quotient(filtered_sum([id \in DOMAIN st.process_metrics |->
                                    st.process_metrics[id].response_time]),
                  st.processes_terminated)

avg_waiting_time(st) ==
    IF st.processes_terminated = 0 THEN Zero
    ELSE Quotient(st.total_waiting_time, st.processes_terminated)

get_process_metrics(st, pid) ==
    IF Enrolled(st, pid) THEN Some(st.process_metrics[pid]) ELSE None

\* SchedulerStats::reset
stats_reset(st) == SchedulerStats_new

\* observer: identifiers whose termination the metrics have on record, those
\* the shell has killed, per identifier the time of its first dispatch, the
\* number of commands that have changed the shell, and whether a ResetStats
\* command has been put to it
NoHistory ==
    [ terminated     |-> {},
      killed         |-> {},
      first_dispatch |-> [p \in {} |-> 0],
      commands       |-> 0,
      reset_issued   |-> FALSE ]

\* neither the metrics nor the shell are called
StatsIdle ==
    /\ stats = SchedulerStats_new
    /\ hist = NoHistory
    /\ arg = None

\* the manager is not called
ManagerIdle ==
    /\ pm = ProcessManager_new
    /\ now = 0
    /\ StatsIdle

----------------------------------------------------------------------------
(* Spec: any caller, any order of calls *)

Tracked(s, pid) == pid \in DOMAIN s.process_queue_map

TotalQueued(s) == Len(s.queues[0]) + Len(s.queues[1]) + Len(s.queues[2]) + Len(s.queues[3])

\* op stays Unlogged in a run that does not log its calls
Unlogged == "-"
Logged(name) == IF op = Unlogged THEN Unlogged ELSE name

\* the call's result is taken unless it overruns the model's queue bound
Taken(s2) ==
    /\ TotalQueued(s2) <= MaxQueued
    /\ sched' = s2
    /\ UNCHANGED <<obs, bypassed, pm, now, stats, arg, hist>>

\* a call of method name that returns ()
Called(name) ==
    /\ op' = Logged(name)
    /\ ret' = None

\* the tick counter is followed near 0, near a boost and near its wrap
InWindow(t) ==
    \/ t % boost_interval < MaxPhase
    \/ t % boost_interval >= boost_interval - Lead
    \/ t = TickModulus - 1

\* the tick values a scheduler that held nothing has reached by idle calls
\* of next_process(), which change the tick counter alone
IdleTicks == {0, boost_interval - Lead, TickModulus - 1}

AddProcess ==
    \E pid \in Pids :
        /\ Taken(add_process(sched, pid))
        /\ Called("add_process")

AddProcessToQueue ==
    \E pid \in Pids, queue \in QueueInputs :
        /\ Taken(add_process_to_queue(sched, pid, queue))
        /\ Called("add_process_to_queue")

RemoveProcess ==
    \E pid \in CallPids :
        /\ Taken(remove_process(sched, pid))
        /\ Called("remove_process")

NextProcess ==
    /\ InWindow(sched.current_ticks)
    /\ LET r == next_process(sched)
       IN  /\ sched' = r.s
           /\ op' = Logged("next_process")
           /\ ret' = r.ret
    /\ UNCHANGED <<obs, bypassed, pm, now, stats, arg, hist>>

ProcessUsedFullQuantum ==
    \E pid \in CallPids :
        /\ Taken(process_used_full_quantum(sched, pid))
        /\ Called("process_used_full_quantum")

ProcessYieldedEarly ==
    \E pid \in CallPids :
        /\ Taken(process_yielded_early(sched, pid))
        /\ Called("process_yielded_early")

Tick ==
    \E ticks \in TickInputs :
        /\ Taken(tick(sched, ticks))
        /\ Called("tick")

Reset ==
    /\ Taken(reset(sched))
    /\ Called("reset")

\* a scheduler as constructed, or as constructed and then asked for the next
\* process while it held nothing
Init ==
    /\ \E t \in IdleTicks : sched = [MLFQScheduler_new EXCEPT !.current_ticks = t]
    /\ op = Unlogged
    /\ ret = None
    /\ obs = None
    /\ bypassed = {}
    /\ ManagerIdle

Next ==
    \/ AddProcess
    \/ AddProcessToQueue
    \/ RemoveProcess
    \/ NextProcess
    \/ ProcessUsedFullQuantum
    \/ ProcessYieldedEarly
    \/ Tick
    \/ Reset

Spec == Init /\ [][Next]_vars

\* the same calls, each logged in op
CallInit ==
    /\ sched = MLFQScheduler_new
    /\ op = "new"
    /\ ret = None
    /\ obs = None
    /\ bypassed = {}
    /\ ManagerIdle

CallSpec == CallInit /\ [][Next]_vars

----------------------------------------------------------------------------
(* LongSpec: one identifier, admitted in the first Slack ticks, followed   *)
(* over a whole boost interval.  obs[pid] remembers the tick value at the  *)
(* last admission, whether get_process_queue has reported queue 0 since,   *)
(* and whether the identifier has been promoted since.                     *)

NotAdmitted == [admitted_at |-> -1, seen0 |-> FALSE, promoted |-> FALSE]

InQueue0(s, pid) == get_process_queue(s, pid) = Some(0)

\* the observer after a call that took the scheduler from s to s2
Observed(s, s2, admitted) ==
    [pid \in LongPids |->
        IF pid \in admitted
        THEN [admitted_at |-> s2.current_ticks, seen0 |-> InQueue0(s2, pid), promoted |-> FALSE]
        ELSE IF ~Tracked(s2, pid) \/ ~Tracked(s, pid)
        THEN NotAdmitted
        ELSE [obs[pid] EXCEPT
                 !.seen0 = @ \/ InQueue0(s2, pid),
                 !.promoted = @ \/ s2.process_queue_map[pid] < s.process_queue_map[pid]]]

LongStep(name, s2, r, admitted) ==
    /\ TotalQueued(s2) <= MaxQueued
    /\ sched' = s2
    /\ op' = Logged(name)
    /\ ret' = r
    /\ obs' = Observed(sched, s2, admitted)
    /\ UNCHANGED <<bypassed, pm, now, stats, arg, hist>>

LongAdmit ==
    /\ sched.current_ticks <= Slack
    /\ \E pid \in LongPids, queue \in 0..3 :
           LongStep("add_process_to_queue", add_process_to_queue(sched, pid, queue), None, {pid})

LongNextProcess ==
    /\ sched.current_ticks < boost_interval + Slack
    /\ LET r == next_process(sched)
       IN  LongStep("next_process", r.s, r.ret, {})

LongUsedFullQuantum ==
    \E pid \in LongPids :
        LongStep("process_used_full_quantum", process_used_full_quantum(sched, pid), None, {})

LongYieldedEarly ==
    \E pid \in LongPids :
        LongStep("process_yielded_early", process_yielded_early(sched, pid), None, {})

LongInit ==
    /\ sched = MLFQScheduler_new
    /\ op = "new"
    /\ ret = None
    /\ obs = [pid \in LongPids |-> NotAdmitted]
    /\ bypassed = {}
    /\ ManagerIdle

LongNext ==
    \/ LongAdmit
    \/ LongNextProcess
    \/ LongUsedFullQuantum
    \/ LongYieldedEarly

LongSpec == LongInit /\ [][LongNext]_vars

----------------------------------------------------------------------------
(* FairSpec: the dispatch protocol.  An identifier is admitted only while  *)
(* untracked; next_process() is called only when every dispatched          *)
(* identifier has been handed back, and the identifier it returns is       *)
(* handed back by exactly one process_used_full_quantum or                 *)
(* process_yielded_early.  The caller keeps calling next_process() and     *)
(* keeps handing back.  bypassed holds the identifiers that were waiting   *)
(* in a queue while a dispatch took an identifier from a queue before it.  *)

\* the identifiers dispatched and not handed back: tracked, in no queue
Held(s) == {pid \in DOMAIN s.process_queue_map :
               \A i \in 0..3 : pid \notin Range(s.queues[i])}

\* the identifiers in a queue after queue j
WaitingBehind(s, quantum) ==
    {pid \in Pids : \E i \in 0..3 :
        time_quantums[i] > quantum /\ pid \in Range(s.queues[i])}

FairStep(name, s2, r, passed, served) ==
    /\ sched' = s2
    /\ op' = Logged(name)
    /\ ret' = r
    /\ bypassed' = (bypassed \cup passed) \ served
    /\ UNCHANGED <<obs, pm, now, stats, arg, hist>>

FairAdmit ==
    \E pid \in Pids, queue \in 0..3 :
        /\ pid \notin DOMAIN sched.process_queue_map
        /\ \E s2 \in {add_process_to_queue(sched, pid, queue)} :
               FairStep("add_process_to_queue", s2, None, {}, {})

FairNextProcess ==
    /\ Held(sched) = {}
    /\ \E r \in {next_process(sched)} :
           FairStep("next_process", r.s, r.ret,
                    IF r.ret = None THEN {} ELSE WaitingBehind(r.s, r.ret[1][2]), {})

FairUsedFullQuantum ==
    \E pid \in Held(sched) : \E s2 \in {process_used_full_quantum(sched, pid)} :
        FairStep("process_used_full_quantum", s2, None, {}, {pid})

FairYieldedEarly ==
    \E pid \in Held(sched) : \E s2 \in {process_yielded_early(sched, pid)} :
        FairStep("process_yielded_early", s2, None, {}, {pid})

FairHandBack == FairUsedFullQuantum \/ FairYieldedEarly

FairInit ==
    /\ sched = MLFQScheduler_new
    /\ op = Unlogged
    /\ ret = None
    /\ obs = None
    /\ bypassed = {}
    /\ ManagerIdle

FairNext ==
    \/ FairAdmit
    \/ FairNextProcess
    \/ FairUsedFullQuantum
    \/ FairYieldedEarly

FairSpec ==
    /\ FairInit
    /\ [][FairNext]_vars
    /\ WF_vars(FairNextProcess)
    /\ WF_vars(FairHandBack)

----------------------------------------------------------------------------
(* ProtocolSpec: a caller that admits an identifier only while it is       *)
(* untracked, with a queue index in 0..3, and hands back (with             *)
(* process_used_full_quantum or process_yielded_early) only the identifier *)
(* next_process() returned last, at most once per dispatch; its other      *)
(* calls are free.  obs follows the caller: latest is the identifier       *)
(* returned last while it may still be handed back, out the identifiers    *)
(* dispatched and not handed back since.                                   *)

NothingOut == [latest |-> None, out |-> {}]

ProtocolStep(name, s2, r, o2) ==
    /\ TotalQueued(s2) <= MaxQueued
    /\ sched' = s2
    /\ op' = name
    /\ ret' = r
    /\ obs' = o2
    /\ UNCHANGED <<bypassed, pm, now, stats, arg, hist>>

ProtocolAdmit ==
    \E pid \in Pids, queue \in 0..3 :
        /\ ~Tracked(sched, pid)
        /\ ProtocolStep("add_process_to_queue",
                        add_process_to_queue(sched, pid, queue), None, obs)

ProtocolNextProcess ==
    /\ InWindow(sched.current_ticks)
    /\ \E r \in {next_process(sched)} :
           ProtocolStep("next_process", r.s, r.ret,
                        IF r.ret = None
                        THEN obs
                        ELSE [latest |-> Some(r.ret[1][1]),
                              out    |-> obs.out \cup {r.ret[1][1]}])

ProtocolUsedFullQuantum ==
    /\ obs.latest # None
    /\ \E pid \in {obs.latest[1]} :
           ProtocolStep("process_used_full_quantum",
                        process_used_full_quantum(sched, pid), None,
                        [latest |-> None, out |-> obs.out \ {pid}])

ProtocolYieldedEarly ==
    /\ obs.latest # None
    /\ \E pid \in {obs.latest[1]} :
           ProtocolStep("process_yielded_early",
                        process_yielded_early(sched, pid), None,
                        [latest |-> None, out |-> obs.out \ {pid}])

ProtocolRemoveProcess ==
    \E pid \in Pids :
        ProtocolStep("remove_process", remove_process(sched, pid), None, obs)

ProtocolInit ==
    /\ \E t \in IdleTicks : sched = [MLFQScheduler_new EXCEPT !.current_ticks = t]
    /\ op = "new"
    /\ ret = None
    /\ obs = NothingOut
    /\ bypassed = {}
    /\ ManagerIdle

ProtocolNext ==
    \/ ProtocolAdmit
    \/ ProtocolNextProcess
    \/ ProtocolUsedFullQuantum
    \/ ProtocolYieldedEarly
    \/ ProtocolRemoveProcess

ProtocolSpec == ProtocolInit /\ [][ProtocolNext]_vars

----------------------------------------------------------------------------
(* ProcSpec: any caller of the process manager, any order of calls *)

ManagerStep(name, m2, r) ==
    /\ pm' = m2
    /\ op' = name
    /\ ret' = r
    /\ UNCHANGED <<sched, obs, bypassed, now, stats, arg, hist>>

\* when next_pid += 1 overflows, a build with overflow checks panics and the
\* program ends there (no step); a build without them wraps, as modelled
CreateProcess ==
    \E ppid \in PpidInputs : \E r \in {create_process(pm, ppid, now)} :
        ManagerStep("create_process", r.m, Some(r.ret))

\* get_process_mut(pid) and Process::set_state on what it returns
SetState ==
    \E pid \in ManagedPids \cap DOMAIN pm.processes, new_state \in StateInputs :
        ManagerStep("set_state",
                    [pm EXCEPT !.processes[pid] = set_state(@, new_state, now)], None)

TerminateProcess ==
    \E pid \in ManagedPids :
        ManagerStep("terminate_process", terminate_process(pm, pid, now),
                    Some(pid \in DOMAIN pm.processes))

SetRunningProcess ==
    \E pid \in ManagedPids :
        ManagerStep("set_running_process", set_running_process(pm, pid, now), None)

ClearRunningProcess ==
    ManagerStep("clear_running_process", clear_running_process(pm), None)

\* time passes
Elapse ==
    /\ now < MaxNow
    /\ now' = now + 1
    /\ UNCHANGED <<sched, op, ret, obs, bypassed, pm, stats, arg, hist>>

ProcInit ==
    /\ sched = MLFQScheduler_new
    /\ op = "new"
    /\ ret = None
    /\ obs = None
    /\ bypassed = {}
    /\ pm = ProcessManager_new
    /\ now = 0
    /\ StatsIdle

ProcNext ==
    \/ CreateProcess
    \/ SetState
    \/ TerminateProcess
    \/ SetRunningProcess
    \/ ClearRunningProcess
    \/ Elapse

ProcSpec == ProcInit /\ [][ProcNext]_vars

----------------------------------------------------------------------------
(* Shell (src/src/shell/mod.rs) *)

\* the names in ProgramRegistry::new (src/src/scheduler/programs.rs)
ProgramNames ==
    { "video_encoder", "compiler", "rendering", "web_browser", "file_transfer",
      "text_editor", "terminal", "music_player", "database", "game", "backup",
      "search" }

get_program(program_name) ==
    IF program_name \in ProgramNames THEN Some(program_name) ELSE None

\* u32::saturating_add; total_time stays far below u32::MAX in every run the
\* model follows
saturating_add(a, b) == a + b

\* what a command replies: the text is kept as Done for the replies that
\* start with the check mark, Refused for those that start with "Error:", and
\* as the values printed for the reports
Done == "ok"
Refused == "error"
Reply(sh, out) == [sh |-> sh, out |-> out]

\* Shell::new at time t; the flag running, cleared by Exit, is left out
Shell_new(t) ==
    LET r == create_process(ProcessManager_new, 0, t)
        init_pid == r.ret
    IN  [ manager   |-> r.m,
          scheduler |-> add_process(MLFQScheduler_new, init_pid),
          stats     |-> record_process_created(SchedulerStats_new, init_pid) ]

\* create_process, add_process and record_process_created for a child of ppid
spawn(sh, ppid, t) ==
    LET r == create_process(sh.manager, ppid, t)
        new_pid == r.ret
    IN  [ manager   |-> r.m,
          scheduler |-> add_process(sh.scheduler, new_pid),
          stats     |-> record_process_created(sh.stats, new_pid) ]

cmd_fork(sh, ppid, t) ==
    IF get_process(sh.manager, ppid) = None /\ ppid # 1
    THEN Reply(sh, Refused)
    ELSE Reply(spawn(sh, ppid, t), Done)

cmd_run(sh, pid, t) ==
    IF get_process(sh.manager, pid) = None THEN Reply(sh, Refused)
    ELSE IF sh.manager.processes[pid].state = "Terminated" THEN Reply(sh, Refused)
    ELSE LET marked == [sh.manager EXCEPT !.processes[pid] = set_state(@, "Running", t)]
         IN  Reply([sh EXCEPT !.manager = set_running_process(marked, pid, t),
                              !.stats = record_context_switch(@, pid)],
                   Done)

cmd_block(sh, pid, t) ==
    IF get_process(sh.manager, pid) = None THEN Reply(sh, Refused)
    ELSE Reply([sh EXCEPT !.manager.processes[pid] = set_state(@, "Blocked", t)], Done)

cmd_unblock(sh, pid, t) ==
    IF get_process(sh.manager, pid) = None THEN Reply(sh, Refused)
    ELSE IF sh.manager.processes[pid].state = "Blocked"
    THEN Reply([sh EXCEPT !.manager.processes[pid] = set_state(@, "Ready", t),
                          !.scheduler = process_yielded_early(@, pid)],
               Done)
    ELSE Reply(sh, Refused)

\* cmd_kill past its test for the init process
kill_process(sh, pid, t) ==
    IF get_process(sh.manager, pid) = None THEN Reply(sh, Refused)
    ELSE LET process    == sh.manager.processes[pid]
             turnaround == turnaround_time(process, t)
             response   == unwrap_or(response_time(process), 0)
             execution  == process.total_time
             recorded   == record_process_terminated(
                               record_execution_time(sh.stats, pid, execution),
                               pid, turnaround, response)
         IN  Reply([ manager   |-> terminate_process(sh.manager, pid, t),
                     scheduler |-> remove_process(sh.scheduler, pid),
                     stats     |-> recorded ],
                   Done)

\* a cmd_kill that does not test for the init process
cmd_kill_unguarded(sh, pid, t) == kill_process(sh, pid, t)

cmd_kill(sh, pid, t) ==
    IF pid = 1 THEN Reply(sh, Refused) ELSE kill_process(sh, pid, t)

\* the turnaround and waiting time cmd_info prints
cmd_info(sh, pid, t) ==
    IF get_process(sh.manager, pid) = None THEN Reply(sh, Refused)
    ELSE LET process == sh.manager.processes[pid]
         IN  Reply(sh, <<turnaround_time(process, t), waiting_time(process, t)>>)

\* one pass of the loop of cmd_schedule; full is rand::random::<f32>() < 0.7
schedule_cycle(sh, full, t) ==
    LET r == next_process(sh.scheduler)
    IN  IF r.ret = None
        THEN [sh |-> [sh EXCEPT !.scheduler = r.s], ran |-> <<>>]
        ELSE LET pid     == r.ret[1][1]
                 quantum == r.ret[1][2]
             IN  IF get_process(sh.manager, pid) = None
                 THEN [sh |-> [sh EXCEPT !.scheduler = r.s], ran |-> <<>>]
                 ELSE LET running  == [set_state(sh.manager.processes[pid], "Running", t)
                                          EXCEPT !.total_time = saturating_add(@, quantum)]
                          measured == record_tick(
                                          record_execution_time(
                                              record_context_switch(sh.stats, pid),
                                              pid, quantum))
                          requeued == IF full
                                      THEN process_used_full_quantum(r.s, pid)
                                      ELSE process_yielded_early(r.s, pid)
                      IN  [sh  |-> [ manager   |-> [sh.manager EXCEPT !.processes[pid] =
                                                       set_state(running, "Ready", t)],
                                     scheduler |-> requeued,
                                     stats     |-> record_queue_change(measured, pid) ],
                           ran |-> <<pid>>]

\* cmd_schedule(cycles) with cycles = Len(full) and full[i] the random draw of
\* cycle i; the reply lists the identifiers that ran, in order
RECURSIVE cmd_schedule(_, _, _)
cmd_schedule(sh, full, t) ==
    IF full = <<>> THEN Reply(sh, <<>>)
    ELSE LET cycle == schedule_cycle(sh, Head(full), t)
             rest  == cmd_schedule(cycle.sh, Tail(full), t)
         IN  Reply(rest.sh, cycle.ran \o rest.out)

cmd_nice(sh, pid, priority) ==
    IF priority > 3 THEN Reply(sh, Refused)
    ELSE IF get_process(sh.manager, pid) = None THEN Reply(sh, Refused)
    ELSE LET set == [sh EXCEPT !.manager.processes[pid].priority = priority]
         IN  IF get_process_queue(sh.scheduler, pid) # None
             THEN Reply([set EXCEPT
                            !.scheduler = add_process_to_queue(
                                              remove_process(@, pid), pid, priority),
                            !.stats = record_queue_change(@, pid)],
                        Done)
             ELSE Reply(set, Done)

cmd_run_program(sh, program_name, t) ==
    IF get_program(program_name) # None
    THEN Reply(spawn(sh, 1, t), Done)
    ELSE Reply(sh, Refused)

cmd_metrics(sh, pid) ==
    IF get_process_metrics(sh.stats, pid) # None
    THEN Reply(sh, sh.stats.process_metrics[pid])
    ELSE Reply(sh, Refused)

cmd_reset_stats(sh) == Reply([sh EXCEPT !.stats = stats_reset(@)], Done)

----------------------------------------------------------------------------
(* StatsSpec: any caller of the metrics, any order of calls *)

\* no call is taken that would take the sum of the metrics' counters past
\* MaxStat or the accumulated execution time past MaxExec
MaxStat == 3
MaxExec == 4

StatsPids == {1, 2}              \* identifiers passed to the recording calls
ExecInputs == {2}                \* arguments of record_execution_time
TurnaroundInputs == {1, 3}       \* turnaround arguments, below and above ExecInputs
ResponseInputs == {0, 1}
DepthInputs == {<<0, 0, 0, 1>>}  \* arguments of sample_queue_depths
ClockInputs == 0..2              \* clock readings put to Process::waiting_time
CreatedInputs == {0, 1}          \* creation times of the processes put to it
TotalTimeInputs == {0, 2}        \* and their total_time

\* the sum of the counters the recording calls increment
Activity(st) ==
    st.processes_created + st.total_context_switches + st.total_ticks
        + st.processes_terminated + Len(st.queue_depth_samples)
        + SumOver([id \in DOMAIN st.process_metrics |->
                       st.process_metrics[id].queue_changes],
                  DOMAIN st.process_metrics)

StatsStep(name, a, st2, h2) ==
    /\ stats' = st2
    /\ hist' = h2
    /\ op' = name
    /\ arg' = a
    /\ ret' = None
    /\ UNCHANGED <<sched, obs, bypassed, pm, now>>

RecordProcessCreated ==
    \E pid \in StatsPids :
        /\ Activity(stats) < MaxStat
        /\ StatsStep("record_process_created", <<pid>>,
                     record_process_created(stats, pid), hist)

RecordContextSwitch ==
    \E pid \in StatsPids :
        /\ Activity(stats) < MaxStat
        /\ StatsStep("record_context_switch", <<pid>>,
                     record_context_switch(stats, pid), hist)

RecordQueueChange ==
    \E pid \in StatsPids :
        /\ Enrolled(stats, pid) => Activity(stats) < MaxStat
        /\ StatsStep("record_queue_change", <<pid>>,
                     record_queue_change(stats, pid), hist)

RecordExecutionTime ==
    \E pid \in StatsPids, time \in ExecInputs :
        /\ stats.total_execution_time + time <= MaxExec
        /\ StatsStep("record_execution_time", <<pid, time>>,
                     record_execution_time(stats, pid, time), hist)

RecordProcessTerminated ==
    \E pid \in StatsPids, turnaround \in TurnaroundInputs, response \in ResponseInputs :
        /\ Activity(stats) < MaxStat
        /\ StatsStep("record_process_terminated", <<pid, turnaround, response>>,
                     record_process_terminated(stats, pid, turnaround, response),
                     IF Enrolled(stats, pid)
                     THEN [hist EXCEPT !.terminated = @ \cup {pid}]
                     ELSE hist)

SampleQueueDepths ==
    \E depths \in DepthInputs :
        /\ Activity(stats) < MaxStat
        /\ StatsStep("sample_queue_depths", <<depths>>,
                     sample_queue_depths(stats, depths), hist)

RecordTick ==
    /\ Activity(stats) < MaxStat
    /\ StatsStep("record_tick", None, record_tick(stats), hist)

StatsReset ==
    /\ stats # SchedulerStats_new
    /\ StatsStep("reset", None, stats_reset(stats), [hist EXCEPT !.terminated = {}])

\* the processes put to Process::waiting_time: created at time created, run
\* for total_time, and terminated at time ended or not at all
ProcessInput(created, total_time, ended) ==
    LET ran == [Process_new(1, 0, created) EXCEPT !.total_time = total_time]
    IN  IF ended = None THEN ran ELSE set_state(ran, "Terminated", ended[1])

\* Process::waiting_time of one of these processes at time t
ProcessWaitingTime ==
    \E created \in CreatedInputs, total_time \in TotalTimeInputs :
    \E ended \in {None} \cup {Some(e) : e \in {e \in ClockInputs : e >= created}} :
    \E t \in {t \in ClockInputs : t >= created /\ (ended # None => t >= ended[1])} :
    \E process \in {ProcessInput(created, total_time, ended)} :
        /\ op' = "waiting_time"
        /\ arg' = <<process, t>>
        /\ ret' = Some(waiting_time(process, t))
        /\ UNCHANGED <<sched, obs, bypassed, pm, now, stats, hist>>

StatsInit ==
    /\ sched = MLFQScheduler_new
    /\ op = "new"
    /\ ret = None
    /\ obs = None
    /\ bypassed = {}
    /\ ManagerIdle

StatsNext ==
    \/ RecordProcessCreated
    \/ RecordContextSwitch
    \/ RecordQueueChange
    \/ RecordExecutionTime
    \/ RecordProcessTerminated
    \/ SampleQueueDepths
    \/ RecordTick
    \/ StatsReset
    \/ ProcessWaitingTime

StatsSpec == StatsInit /\ [][StatsNext]_vars

----------------------------------------------------------------------------
(* ShellSpec: any sequence of commands put to Shell::execute *)

\* the shell is followed through MaxCommands commands that change it, with
\* any number of commands that do not in between; no command is taken that
\* would leave more than MaxProcs processes, and no Schedule command asks for
\* more than MaxCycles cycles
MaxCommands == 3
MaxProcs == 2
MaxCycles == 2

ShellPids == {1, 2}                  \* identifiers named in commands
NiceInputs == {0, 4}                 \* priorities; 4 is out of range
ProgramInputs == {"compiler", "nothing"}
ReportInputs == {"ps", "stats"}         \* of Ps, Queues, SchedStats, Programs, Stats, Help
\* the random draws of one Schedule command, one per cycle
ScheduleInputs == UNION {[1..cycles -> BOOLEAN] : cycles \in 1..MaxCycles}

\* the shell object, whose fields are the variables pm, sched and stats
Shell == [manager |-> pm, scheduler |-> sched, stats |-> stats]

ShellBounded(sh) ==
    /\ process_count(sh.manager) <= MaxProcs
    /\ sh.manager.next_pid # 0
    /\ TotalQueued(sh.scheduler) <= MaxQueued

\* Shell::execute of one command, with what the observer notes of it
Executed(name, a, r, h2) ==
    /\ ShellBounded(r.sh)
    /\ r.sh # Shell => hist.commands < MaxCommands
    /\ pm' = r.sh.manager
    /\ sched' = r.sh.scheduler
    /\ stats' = r.sh.stats
    /\ op' = name
    /\ arg' = a
    /\ ret' = Some(r.out)
    /\ hist' = [h2 EXCEPT !.commands = IF r.sh = Shell THEN @ ELSE @ + 1]
    /\ UNCHANGED <<obs, bypassed, now>>

Fork ==
    \E ppid \in PpidInputs :
        Executed("fork", <<ppid>>, cmd_fork(Shell, ppid, now), hist)

Run ==
    \E pid \in ShellPids :
        Executed("run", <<pid>>, cmd_run(Shell, pid, now), hist)

Block ==
    \E pid \in ShellPids :
        Executed("block", <<pid>>, cmd_block(Shell, pid, now), hist)

Unblock ==
    \E pid \in ShellPids :
        Executed("unblock", <<pid>>, cmd_unblock(Shell, pid, now), hist)

Kill ==
    \E pid \in ShellPids : \E r \in {cmd_kill(Shell, pid, now)} :
        Executed("kill", <<pid>>, r,
                 IF r.out = Done
                 THEN [hist EXCEPT !.killed = @ \cup {pid},
                                   !.terminated = IF Enrolled(stats, pid)
                                                  THEN @ \cup {pid} ELSE @]
                 ELSE hist)

Info ==
    \E pid \in ShellPids :
        Executed("info", <<pid>>, cmd_info(Shell, pid, now), hist)

\* the observer notes the time of the first dispatch of each identifier
Schedule ==
    \E full \in ScheduleInputs : \E r \in {cmd_schedule(Shell, full, now)} :
        Executed("schedule", <<Len(full)>>, r,
                 [hist EXCEPT !.first_dispatch =
                     [pid \in DOMAIN @ \cup Range(r.out) |->
                         IF pid \in DOMAIN @ THEN @[pid] ELSE now]])

Nice ==
    \E pid \in ShellPids, priority \in NiceInputs :
        Executed("nice", <<pid, priority>>, cmd_nice(Shell, pid, priority), hist)

RunProgram ==
    \E program_name \in ProgramInputs :
        Executed("run_program", <<program_name>>,
                 cmd_run_program(Shell, program_name, now), hist)

Metrics ==
    \E pid \in ShellPids :
        Executed("metrics", <<pid>>, cmd_metrics(Shell, pid), hist)

ResetStats ==
    Executed("reset_stats", None, cmd_reset_stats(Shell),
             [hist EXCEPT !.terminated = {}, !.reset_issued = TRUE])

\* Ps, Queues, SchedStats, Programs, Stats and Help print and change nothing;
\* Exit ends the session, no command follows it
Report ==
    \E name \in ReportInputs : Executed(name, None, Reply(Shell, Done), hist)

ShellInit ==
    /\ now = 0
    /\ \E sh \in {Shell_new(0)} :
          /\ pm = sh.manager
          /\ sched = sh.scheduler
          /\ stats = sh.stats
    /\ op = "new"
    /\ arg = None
    /\ ret = None
    /\ hist = NoHistory
    /\ obs = None
    /\ bypassed = {}

ShellNext ==
    \/ Fork
    \/ Run
    \/ Block
    \/ Unblock
    \/ Kill
    \/ Info
    \/ Schedule
    \/ Nice
    \/ RunProgram
    \/ Metrics
    \/ ResetStats
    \/ Report
    \/ Elapse

ShellSpec == ShellInit /\ [][ShellNext]_vars

----------------------------------------------------------------------------
(* Vocabulary of the properties *)

\* how often pid occurs in queue q, and in all four queues
Count(q, pid) == Len(SelectSeq(q, LAMBDA p : p = pid))
Occurrences(s, pid) ==
    Count(s.queues[0], pid) + Count(s.queues[1], pid)
        + Count(s.queues[2], pid) + Count(s.queues[3], pid)

AtTail(q, pid) == q # <<>> /\ q[Len(q)] = pid

IsPrefix(a, b) == Len(a) <= Len(b) /\ SubSeq(b, 1, Len(a)) = a

\* q without the entries of the identifiers in X
Without(q, X) == SelectSeq(q, LAMBDA p : p \notin X)

\* this step is a next_process() call (which always changes the tick counter)
IsNextProcess ==
    /\ sched'.current_ticks # sched.current_ticks
    /\ \E r \in {next_process(sched)} : sched' = r.s /\ ret' = r.ret

\* the tick value a next_process() call has reached is a boost tick
BoostTick(s) == s.current_ticks > 0 /\ s.current_ticks % boost_interval = 0

\* queue i as the selection of a next_process() call finds it: after the
\* boost, if the call boosts
AtSelection(boost, i) ==
    IF boost
    THEN IF i = 0
         THEN sched.queues[0] \o sched.queues[1] \o sched.queues[2] \o sched.queues[3]
         ELSE <<>>
    ELSE sched.queues[i]

----------------------------------------------------------------------------
(* C1 - priority invariant: next_process() returns the head of the         *)
(* lowest-numbered queue that is non-empty after the call's boost, if any: *)
(* the queue it pops has only empty queues before it.                      *)
PriorityInvariant ==
    [][IsNextProcess /\ ret' # None =>
          \E boost \in {BoostTick(sched')} : \E j \in 0..3 :
              /\ AtSelection(boost, j) # <<>>
              /\ ret'[1][1] = Head(AtSelection(boost, j))
              /\ sched'.queues[j] = Tail(AtSelection(boost, j))
              /\ \A i \in 0..3 : i # j => sched'.queues[i] = AtSelection(boost, i)
              /\ \A i \in 0..(j - 1) : AtSelection(boost, i) = <<>>]_vars

\* a dispatch from queue 0, off a boost tick, that left an identifier waiting
\* in queue 3
PriorityWitness ==
    /\ ret # None
    /\ ret[1][2] = time_quantums[0]
    /\ ~BoostTick(sched)
    /\ sched.queues[3] # <<>>

(* C2 - FIFO within a queue: a dispatch from queue q returns the entry at  *)
(* the head of q and leaves the entries behind it as they were; any other  *)
(* call leaves the entries of q in their order, ahead of what it appends,  *)
(* except for the one identifier it takes out of q (or empties q).         *)
FifoInvariant ==
    [][\E called \in {IsNextProcess} : \E boost \in {called /\ BoostTick(sched')} :
          \A q \in 0..3 :
              IF called /\ ret' # None /\ ret'[1][2] = time_quantums[q]
              THEN /\ AtSelection(boost, q) # <<>>
                   /\ ret'[1][1] = Head(AtSelection(boost, q))
                   /\ sched'.queues[q] = Tail(AtSelection(boost, q))
              ELSE \/ sched'.queues[q] = <<>>
                   \/ \E X \in {{}} \cup {{pid} : pid \in Pids} :
                          /\ X \cap Range(sched'.queues[q]) = {}
                          /\ IsPrefix(Without(AtSelection(boost, q), X), sched'.queues[q])]_vars

\* identifier 1 has just been dispatched from queue 3 ahead of identifier 2,
\* which was behind it in that queue
FifoWitness ==
    /\ ret = Some(<<1, time_quantums[3]>>)
    /\ sched.queues[3] # <<>>
    /\ Head(sched.queues[3]) = 2

(* C3 - conservation: every identifier in the reverse index occurs in      *)
(* exactly one queue (once), and the reverse index has as many entries as  *)
(* the four queues together.                                               *)
Conservation ==
    /\ \A pid \in DOMAIN sched.process_queue_map : Occurrences(sched, pid) = 1
    /\ Cardinality(DOMAIN sched.process_queue_map) = TotalQueued(sched)

(* C4 - every identifier occurs at most once across the four queues, and   *)
(* get_process_queue reports n for every member of queue n.                *)
UniqueAndIndexed ==
    /\ \A pid \in Pids : Occurrences(sched, pid) <= 1
    /\ \A n \in 0..3 : \A pid \in Range(sched.queues[n]) :
           get_process_queue(sched, pid) = Some(n)

(* C5 - admitting a tracked identifier is remove-then-append: afterwards   *)
(* it occurs exactly once in all queues, at the tail of the target queue.  *)
AdmitTrackedNoDuplicate ==
    [][\A pid \in Pids, n \in 0..3 :
          /\ Tracked(sched, pid)
          /\ \/ op' = "add_process_to_queue" /\ sched' = add_process_to_queue(sched, pid, n)
             \/ op' = "add_process" /\ n = 3 /\ sched' = add_process(sched, pid)
          => /\ Occurrences(sched', pid) = 1
             /\ AtTail(sched'.queues[n], pid)]_vars

(* C6 - starvation bound: an identifier admitted when the tick counter is  *)
(* T, tracked ever since and never promoted, has been reported in queue 0  *)
(* by get_process_queue by the time the counter reaches T + boost_interval.*)
StarvationBound ==
    \A pid \in LongPids :
        /\ Tracked(sched, pid)
        /\ obs[pid].admitted_at >= 0
        /\ ~obs[pid].promoted
        /\ sched.current_ticks >= obs[pid].admitted_at + boost_interval
        => obs[pid].seen0

(* C7 - no starvation: under the dispatch protocol every identifier        *)
(* waiting in a queue is eventually returned by next_process().            *)
NoStarvation ==
    \A pid \in Pids :
        (\E i \in 0..3 : pid \in Range(sched.queues[i]))
            ~> (ret # None /\ ret[1][1] = pid)

\* next_process() returns an identifier that an earlier dispatch from a
\* queue before its own had passed over
NoStarvationWitness ==
    /\ ret # None
    /\ ret[1][1] \in bypassed

(* C8 - demote: process_used_full_quantum(id) on an identifier tracked at  *)
(* queue q sets its reverse-index entry to min(q + 1, 3), never above 3;   *)
(* for q < 3 the identifier is then in queue q + 1 only, at its tail, and  *)
(* the other identifiers keep their places.                                *)
DemoteMoves ==
    [][\A pid \in Pids :
          /\ Tracked(sched, pid)
          /\ op' = "process_used_full_quantum"
          /\ sched' = process_used_full_quantum(sched, pid)
          => LET q == sched.process_queue_map[pid]
             IN  /\ get_process_queue(sched', pid) = Some(IF q < 3 THEN q + 1 ELSE 3)
                 /\ q < 3 =>
                       /\ Occurrences(sched', pid) = 1
                       /\ AtTail(sched'.queues[q + 1], pid)
                       /\ \A i \in 0..3 :
                              Without(sched'.queues[i], {pid})
                                  = Without(sched.queues[i], {pid})]_vars

(* C9 - promote: process_yielded_early(id) on an identifier tracked at     *)
(* queue q sets its reverse-index entry to max(q - 1, 0), never below 0;   *)
(* for q > 0 the identifier is then in queue q - 1 only, at its tail, and  *)
(* the other identifiers keep their places.                                *)
PromoteMoves ==
    [][\A pid \in Pids :
          /\ Tracked(sched, pid)
          /\ op' = "process_yielded_early"
          /\ sched' = process_yielded_early(sched, pid)
          => LET q == sched.process_queue_map[pid]
             IN  /\ get_process_queue(sched', pid) = Some(IF q > 0 THEN q - 1 ELSE 0)
                 /\ q > 0 =>
                       /\ Occurrences(sched', pid) = 1
                       /\ AtTail(sched'.queues[q - 1], pid)
                       /\ \A i \in 0..3 :
                              Without(sched'.queues[i], {pid})
                                  = Without(sched.queues[i], {pid})]_vars

(* C10 - boundary re-enqueue: process_used_full_quantum(id) at queue 3 and *)
(* process_yielded_early(id) at queue 0 leave the identifier exactly once  *)
(* in that queue, at its tail, dispatched beforehand or not.               *)
BoundaryReenqueue ==
    [][\A pid \in Pids :
          /\ Tracked(sched, pid)
          /\ \/ /\ sched.process_queue_map[pid] = 3
                /\ op' = "process_used_full_quantum"
                /\ sched' = process_used_full_quantum(sched, pid)
             \/ /\ sched.process_queue_map[pid] = 0
                /\ sched' = process_yielded_early(sched, pid)
          => LET q == sched.process_queue_map[pid]
             IN  /\ Count(sched'.queues[q], pid) = 1
                 /\ AtTail(sched'.queues[q], pid)]_vars

(* C11 - untracked identifiers are a no-op: process_used_full_quantum,     *)
(* process_yielded_early and remove_process, called with an identifier     *)
(* that is not in the reverse index, leave the whole scheduler as it was;  *)
(* and a second remove_process of the same identifier changes nothing.     *)
UntrackedNoOp ==
    [][\A pid \in CallPids :
          /\ /\ op' = "remove_process"
             /\ sched' = remove_process(sched, pid)
             => remove_process(sched', pid) = sched'
          /\ /\ ~Tracked(sched, pid)
             /\ \/ /\ op' = "process_used_full_quantum"
                   /\ sched' = process_used_full_quantum(sched, pid)
                \/ /\ op' = "process_yielded_early"
                   /\ sched' = process_yielded_early(sched, pid)
                \/ /\ op' = "remove_process"
                   /\ sched' = remove_process(sched, pid)
             => sched' = sched]_vars

\* remove_process has returned and every admitted identifier is tracked and
\* queued: the call was made with an identifier that was not tracked
UntrackedNoOpWitness ==
    /\ op = "remove_process"
    /\ DOMAIN sched.process_queue_map = Pids
    /\ \A pid \in Pids : Occurrences(sched, pid) = 1

\* the fixed quantum of each queue
FixedQuantum == <<8, 16, 32, 64>>

(* C12 - a dispatch returns (id, quantum) with quantum the fixed quantum   *)
(* (8, 16, 32, 64) of the queue the identifier was popped from after the   *)
(* call's boost; right afterwards current_process() = id and               *)
(* time_remaining() = quantum.                                             *)
DispatchQuantum ==
    [][IsNextProcess /\ ret' # None =>
          \E boost \in {BoostTick(sched')} : \E j \in 0..3 :
              /\ AtSelection(boost, j) # <<>>
              /\ \A i \in 0..(j - 1) : AtSelection(boost, i) = <<>>
              /\ ret' = Some(<<Head(AtSelection(boost, j)), FixedQuantum[j + 1]>>)
              /\ current_process(sched') = Some(ret'[1][1])
              /\ time_remaining(sched') = ret'[1][2]]_vars

\* a dispatch on a boost tick: the identifier runs with the quantum of
\* queue 0 and the reverse index reports it in queue 0
DispatchQuantumWitness ==
    /\ ret # None
    /\ BoostTick(sched)
    /\ current_process(sched) = Some(ret[1][1])
    /\ time_remaining(sched) = FixedQuantum[1]
    /\ get_process_queue(sched, ret[1][1]) = Some(0)

(* C13 - every next_process() call, one that finds all queues empty        *)
(* included, first advances the tick counter by 1 (in the counter's own    *)
(* arithmetic); the call boosts iff the new tick value is a nonzero        *)
(* multiple of boost_interval, and selects from the queues as the boost    *)
(* left them: on such a tick queues 1-3 end up empty, on any other tick    *)
(* every queue keeps its entries but for the one head dispatched.          *)
TickThenBoost ==
    [][IsNextProcess =>
          /\ sched'.current_ticks = (sched.current_ticks + 1) % TickModulus
          /\ \E boost \in {sched'.current_ticks # 0
                              /\ sched'.current_ticks % boost_interval = 0} :
                 /\ \A i \in 0..3 :
                        \/ sched'.queues[i] = AtSelection(boost, i)
                        \/ /\ ret' # None
                           /\ AtSelection(boost, i) # <<>>
                           /\ ret'[1][1] = Head(AtSelection(boost, i))
                           /\ sched'.queues[i] = Tail(AtSelection(boost, i))
                 /\ ~boost => sched'.process_queue_map = sched.process_queue_map
                 /\ boost => \A i \in 1..3 : \A pid \in Range(sched.queues[i]) :
                                 get_process_queue(sched', pid) = Some(0)]_vars

\* the call that took the tick counter to boost_interval found every queue
\* empty
TickThenBoostWitness ==
    /\ sched.current_ticks = boost_interval
    /\ current_process(sched) = None
    /\ TotalQueued(sched) = 0

(* C14 - a boost appends to queue 0 the contents of queue 1, then queue 2, *)
(* then queue 3, each in FIFO order, behind what queue 0 held; afterwards  *)
(* queues 1-3 are empty and the reverse index reports 0 for every moved    *)
(* identifier.  (The call that boosts then dispatches the head of queue 0.)*)
BoostOrder ==
    [][IsNextProcess /\ BoostTick(sched') =>
          LET moved  == sched.queues[1] \o sched.queues[2] \o sched.queues[3]
              merged == sched.queues[0] \o moved
          IN  /\ \A i \in 1..3 : sched'.queues[i] = <<>>
              /\ IF merged = <<>>
                 THEN sched'.queues[0] = <<>> /\ ret' = None
                 ELSE /\ ret' # None
                      /\ <<ret'[1][1]>> \o sched'.queues[0] = merged
              /\ \A pid \in Range(moved) : get_process_queue(sched', pid) = Some(0)]_vars

\* a boost tick has left two different identifiers in queue 0 behind the one
\* it dispatched, both reported in queue 0
BoostOrderWitness ==
    /\ BoostTick(sched)
    /\ ret # None
    /\ Len(sched.queues[0]) = 2
    /\ sched.queues[0][1] # sched.queues[0][2]
    /\ \A pid \in Range(sched.queues[0]) : get_process_queue(sched, pid) = Some(0)

(* C15 - next_process() returns none iff all four queues are empty at      *)
(* selection time (after the call's boost); then no queue and no           *)
(* reverse-index entry changes and current_process() reports none.         *)
NoneIffEmpty ==
    [][IsNextProcess =>
          \E boost \in {BoostTick(sched')} :
              /\ ret' = None <=> \A i \in 0..3 : AtSelection(boost, i) = <<>>
              /\ ret' = None =>
                     /\ sched'.queues = sched.queues
                     /\ sched'.process_queue_map = sched.process_queue_map
                     /\ current_process(sched') = None]_vars

\* the call after the one on the boost tick found every queue empty while
\* an identifier dispatched earlier was still tracked
NoneIffEmptyWitness ==
    /\ sched.current_ticks = boost_interval + 1
    /\ current_process(sched) = None
    /\ TotalQueued(sched) = 0
    /\ DOMAIN sched.process_queue_map # {}

(* C16 - after remove_process(id) the identifier is absent from the        *)
(* reverse index and from every queue (so that no later next_process()     *)
(* returns it until it is admitted again), whatever calls came before.     *)
RemovedIsAbsent ==
    [][\A pid \in CallPids :
          /\ op' = "remove_process"
          /\ sched' = remove_process(sched, pid)
          => /\ ~Tracked(sched', pid)
             /\ Occurrences(sched', pid) = 0]_vars

(* C17 - add_process_to_queue(id, n) with n outside 0..3 is a no-op: the   *)
(* whole scheduler state is unchanged.                                     *)
OutOfRangeQueueNoOp ==
    [][\A pid \in Pids, n \in QueueInputs :
          /\ n \notin 0..3
          /\ op' = "add_process_to_queue"
          /\ sched' = add_process_to_queue(sched, pid, n)
          => sched' = sched]_vars

\* add_process_to_queue has returned and nothing is tracked: its queue index
\* was out of range
OutOfRangeQueueWitness ==
    /\ op = "add_process_to_queue"
    /\ DOMAIN sched.process_queue_map = {}

(* C18 - tick(n) sets the remaining time to max(0, remaining - n), never   *)
(* negative, and changes nothing else; is_quantum_expired() is true        *)
(* exactly when the remaining time is 0: false right after a dispatch,     *)
(* true after a tick of at least the remaining time.                       *)
TickSaturates ==
    [][/\ is_quantum_expired(sched) <=> time_remaining(sched) = 0
       /\ ret' # None /\ IsNextProcess => ~is_quantum_expired(sched')
       /\ \A n \in TickInputs :
              op' = "tick" /\ sched' = tick(sched, n) =>
                  /\ time_remaining(sched') =
                         IF time_remaining(sched) > n THEN time_remaining(sched) - n ELSE 0
                  /\ time_remaining(sched') >= 0
                  /\ sched' = [sched EXCEPT !.time_remaining = time_remaining(sched')]
                  /\ n >= time_remaining(sched) => is_quantum_expired(sched')]_vars

\* tick has returned with the quantum of the dispatched identifier used up
TickSaturatesWitness ==
    /\ op = "tick"
    /\ current_process(sched) # None
    /\ is_quantum_expired(sched)

(* C19 - reset() yields the state of a freshly created scheduler: queues   *)
(* and reverse index empty, no current identifier, remaining time 0, tick  *)
(* counter 0.                                                              *)
ResetIsNew ==
    [][op' = "reset" /\ sched' = reset(sched) => sched' = MLFQScheduler_new]_vars

\* reset has returned
ResetIsNewWitness ==
    /\ op = "reset"
    /\ sched.current_ticks = 0
    /\ sched.queues = [i \in 0..3 |-> <<>>]

(* C20 - create_process returns 1, 2, 3, ... in call order: the pid it     *)
(* returns is not in the table yet, next_pid never decreases, and the      *)
(* call overwrites or removes no table entry.                              *)
FreshPids ==
    [][/\ pm'.next_pid >= pm.next_pid
       /\ op' = "create_process" /\ pm' # pm =>
              /\ ret' = Some(process_count(pm) + 1)
              /\ ret'[1] \notin DOMAIN pm.processes
              /\ \A pid \in DOMAIN pm.processes :
                     /\ pid \in DOMAIN pm'.processes
                     /\ pm'.processes[pid] = pm.processes[pid]]_vars

(* C21 - for every process in the table, termination_time is set if and   *)
(* only if its state is Terminated.                                        *)
TerminationStamped ==
    \A pid \in DOMAIN pm.processes :
        pm.processes[pid].termination_time # None
            <=> pm.processes[pid].state = "Terminated"

(* C22 - Terminated is absorbing: a process whose state is Terminated is   *)
(* still in the table with state Terminated after every later call.        *)
TerminatedAbsorbing ==
    [][\A pid \in DOMAIN pm.processes :
          pm.processes[pid].state = "Terminated" =>
              /\ pid \in DOMAIN pm'.processes
              /\ pm'.processes[pid].state = "Terminated"]_vars

(* C23 - re-terminating is a no-op: terminate_process(id) on a process     *)
(* that is already Terminated leaves its whole record, the termination     *)
(* timestamp included, as it was.                                          *)
ReterminateNoOp ==
    [][\A pid \in ManagedPids :
          /\ op' = "terminate_process"
          /\ pid \in DOMAIN pm.processes
          /\ pm.processes[pid].state = "Terminated"
          /\ pm' = terminate_process(pm, pid, now)
          => pm'.processes[pid] = pm.processes[pid]]_vars

(* C25 - a recording call (record_context_switch, record_queue_change,    *)
(* record_execution_time, record_process_terminated) for an identifier     *)
(* without an enrolled record is a no-op: every system counter and every   *)
(* per-process record is unchanged.                                        *)
UnenrolledNoOp ==
    [][/\ op' \in {"record_context_switch", "record_queue_change",
                   "record_execution_time", "record_process_terminated"}
       /\ ~Enrolled(stats, arg'[1])
       => stats' = stats]_vars

Max0(x) == IF x > 0 THEN x ELSE 0

(* C26 - record_process_terminated(id, turnaround, response) on an         *)
(* enrolled id stores turnaround and response as given and sets            *)
(* waiting_time to max(0, turnaround - execution_time); and                *)
(* Process::waiting_time is max(0, turnaround_time - total_time).          *)
WaitingClamped ==
    [][/\ op' = "record_process_terminated" /\ Enrolled(stats, arg'[1]) =>
            LET pid    == arg'[1]
                before == stats.process_metrics[pid]
                after  == stats'.process_metrics[pid]
            IN  /\ after.turnaround_time = arg'[2]
                /\ after.response_time = arg'[3]
                /\ after.waiting_time = Max0(arg'[2] - before.execution_time)
                /\ after.execution_time = before.execution_time
       /\ op' = "waiting_time" =>
            LET process == arg'[1]
                ended   == IF process.state = "Terminated"
                           THEN process.termination_time[1] ELSE arg'[2]
            IN  ret' = Some(Max0((ended - process.creation_time) - process.total_time))
      ]_vars

\* a termination recorded for a process that has run for longer than its
\* turnaround
WaitingClampedWitness ==
    /\ op = "record_process_terminated"
    /\ Enrolled(stats, arg[1])
    /\ stats.process_metrics[arg[1]].execution_time > arg[2]
    /\ stats.process_metrics[arg[1]].waiting_time = 0

(* C27 - record_process_terminated called again for an identifier whose    *)
(* termination is on record overwrites: the terminated counter stays, the  *)
(* total waiting time has the old waiting time replaced by the new, and    *)
(* the record holds the values of the last call.                           *)
ReterminationOverwrites ==
    [][/\ op' = "record_process_terminated"
       /\ arg'[1] \in hist.terminated
       => LET pid     == arg'[1]
              before  == stats.process_metrics[pid]
              waiting == Max0(arg'[2] - before.execution_time)
          IN  /\ stats'.processes_terminated = stats.processes_terminated
              /\ stats'.total_waiting_time =
                     (stats.total_waiting_time - before.waiting_time) + waiting
              /\ stats'.process_metrics[pid] =
                     [before EXCEPT !.turnaround_time = arg'[2],
                                    !.response_time = arg'[3],
                                    !.waiting_time = waiting]]_vars

\* the mean of one field over the identifiers whose termination is on record
MeanOverTerminated(f) ==
    IF hist.terminated = {} THEN Zero
    ELSE Quotient(SumOver(f, hist.terminated), Cardinality(hist.terminated))

(* C28 - avg_turnaround_time, avg_response_time and avg_waiting_time are   *)
(* each the sum of that quantity over the identifiers whose termination    *)
(* was recorded divided by the number of those identifiers, and zero when  *)
(* there is none.                                                          *)
AveragesOverTerminated ==
    /\ SameQuotient(avg_turnaround_time(stats),
                    MeanOverTerminated([id \in DOMAIN stats.process_metrics |->
                                            stats.process_metrics[id].turnaround_time]))
    /\ SameQuotient(avg_response_time(stats),
                    MeanOverTerminated([id \in DOMAIN stats.process_metrics |->
                                            stats.process_metrics[id].response_time]))
    /\ SameQuotient(avg_waiting_time(stats),
                    MeanOverTerminated([id \in DOMAIN stats.process_metrics |->
                                            stats.process_metrics[id].waiting_time]))

(* C24 - Process::response_time() is absent while total_time is 0 and,   *)
(* once total_time is nonzero, is the time from the creation of the        *)
(* process to its first dispatch.                                          *)
ResponseTimeMeasured ==
    \A pid \in DOMAIN pm.processes :
        LET process == pm.processes[pid]
        IN  IF process.total_time = 0
            THEN response_time(process) = None
            ELSE /\ pid \in DOMAIN hist.first_dispatch
                 /\ response_time(process) =
                        Some(hist.first_dispatch[pid] - process.creation_time)

(* C29 - in the shell, Kill { pid: 1 } is always refused and leaves the    *)
(* manager, the scheduler and the metrics as they were; process 1 is       *)
(* never Terminated and always tracked by the scheduler.                   *)
InitNeverKilled ==
    /\ [](/\ 1 \in DOMAIN pm.processes
          /\ pm.processes[1].state # "Terminated"
          /\ Tracked(sched, 1))
    /\ [][op' = "kill" /\ arg' = <<1>> =>
              /\ ret' = Some(Refused)
              /\ pm' = pm
              /\ sched' = sched
              /\ stats' = stats]_vars

\* Kill { pid: 1 } put to a shell that has executed other commands
InitNeverKilledWitness ==
    /\ op = "kill"
    /\ arg = <<1>>
    /\ ret = Some(Refused)
    /\ hist.commands > 0

(* C30 - in the shell, a Kill { pid } that succeeds leaves the process     *)
(* Terminated; from then on it is retained in the process table, is        *)
(* untracked by the scheduler, and no Schedule command dispatches it.      *)
KilledStaysOut ==
    /\ [][op' = "kill" /\ ret' = Some(Done) =>
              /\ arg'[1] # 1
              /\ arg'[1] \in hist'.killed
              /\ arg'[1] \in DOMAIN pm'.processes
              /\ pm'.processes[arg'[1]].state = "Terminated"]_vars
    /\ [](\A pid \in hist.killed :
              /\ pid \in DOMAIN pm.processes
              /\ ~Tracked(sched, pid)
              /\ Occurrences(sched, pid) = 0)
    /\ [][op' = "schedule" => Range(ret'[1]) \cap hist.killed = {}]_vars

\* a Schedule command that dispatches some process after another was killed
KilledStaysOutWitness ==
    /\ op = "schedule"
    /\ ret[1] # <<>>
    /\ hist.killed # {}

(* C31 - under the dispatch protocol (admission only of an untracked       *)
(* identifier to a queue 0..3, hand-back only of the identifier            *)
(* next_process() returned last, at most once per dispatch), in every      *)
(* reachable state no identifier occurs twice across the queues, every     *)
(* queued identifier's reverse-index entry is the queue holding it, and a  *)
(* tracked identifier absent from all queues was dispatched and not yet    *)
(* handed back.                                                            *)
ProtocolInvariant ==
    \A pid \in Pids :
        /\ Occurrences(sched, pid) <= 1
        /\ \A i \in 0..3 :
               pid \in Range(sched.queues[i]) =>
                   Tracked(sched, pid) /\ sched.process_queue_map[pid] = i
        /\ Tracked(sched, pid) /\ Occurrences(sched, pid) = 0 => pid \in obs.out

IdleHasNoQuantum ==
    current_process(sched) = None =>
        time_remaining(sched) = 0 /\ is_quantum_expired(sched)

(* C34 - at most one process is in state Running at any time, and it is    *)
(* the one get_running_process() returns, after any sequence of            *)
(* set_running_process, clear_running_process and shell Run commands.      *)
OneRunning ==
    \A pid \in DOMAIN pm.processes :
        pm.processes[pid].state = "Running" =>
            /\ get_running_process(pm) = Some(pm.processes[pid])
            /\ \A other \in DOMAIN pm.processes :
                   pm.processes[other].state = "Running" => other = pid

(* C35 - in the shell, a process in state Blocked is never dispatched by a *)
(* Schedule command: no process that is Blocked when the command is put    *)
(* is among those the command runs.                                        *)
BlockedNotDispatched ==
    [][op' = "schedule" /\ hist'.commands # hist.commands =>
          \A pid \in Range(ret'[1]) : pm.processes[pid].state # "Blocked"]_vars

(* C36 - in the shell, as long as no ResetStats command has been put, the  *)
(* execution_time in each process's metrics equals the process's           *)
(* total_time, after any sequence of Fork, Schedule, Nice, Block, Unblock  *)
(* and Kill commands.                                                      *)
ExecutionMatchesTotal ==
    ~hist.reset_issued =>
        \A pid \in DOMAIN pm.processes :
            /\ Enrolled(stats, pid)
            /\ stats.process_metrics[pid].execution_time = pm.processes[pid].total_time

(* C37 - in the shell, as long as no ResetStats command has been put,      *)
(* processes_terminated is the number of processes killed, each counted    *)
(* once, and never exceeds processes_created, also when Kill is repeated   *)
(* on the same process.                                                    *)
TerminatedCountsKilled ==
    ~hist.reset_issued =>
        /\ stats.processes_terminated = Cardinality(hist.killed)
        /\ stats.processes_terminated <= stats.processes_created

(* C38 - under the shell's scheduling total_execution_time never exceeds   *)
(* total_ticks: the CPU utilization reported is at most 100%.              *)
UtilizationBounded ==
    stats.total_execution_time <= stats.total_ticks

(* C39 - the tick counter is monotonic: between resets no next_process()   *)
(* call, however many came before it, leaves the counter (an unsigned      *)
(* integer of TickBits bits) below the value it found; this is what puts a *)
(* boost on exactly every boost_interval-th call since creation or reset.  *)
TickMonotonic ==
    [][IsNextProcess => sched'.current_ticks > sched.current_ticks]_vars

====
